---- MODULE Spec2Model ----
(***************************************************************************)
(* Model of src/error.rs of unrar.rs: the status-code enumeration Code,    *)
(* the phase enumeration When, the error value UnrarError with its Display *)
(* and Debug renderings and its derived equality, and NulError with its    *)
(* two From conversions and its Display rendering.                         *)
(*                                                                         *)
(* Text is modelled by TLA+ strings: \o is concatenation, Len the length   *)
(* and SubSeq the substring.  An enum value is modelled by the string that *)
(* spells its variant; its integer value is given by as_i32.               *)
(***************************************************************************)
EXTENDS Integers, Sequences, FiniteSets, TLC

VARIABLES code_in, code_out, cast_out,
          lhs, rhs, text_l, text_r, debug_l, eq_out,
          nul_src, nul_err, nul_text

codeVars == <<code_in, code_out, cast_out>>
errVars == <<lhs, rhs, text_l, text_r, debug_l, eq_out>>
nulVars == <<nul_src, nul_err, nul_text>>
vars == <<code_in, code_out, cast_out, lhs, rhs, text_l, text_r, debug_l,
          eq_out, nul_src, nul_err, nul_text>>

(***************************************************************************)
(* Option<T>.  None also stands for "this call has not been made yet" in   *)
(* the variables that hold the argument or the result of a call.           *)
(***************************************************************************)
None == [tag |-> "None"]
Some(v) == [tag |-> "Some", value |-> v]
IsSome(o) == o.tag = "Some"

(***************************************************************************)
(* Bounds of the model.                                                    *)
(***************************************************************************)
\* raw status integers -MaxRaw..MaxRaw are handed to Code::from
MaxRaw == 64
\* integers within Near of 0x10000 and of -999 are handed to Code::from
Near == 2
\* nul positions 0..MaxNulPos are carried by the conversion failures
MaxNulPos == 120

(***************************************************************************)
(* i32, the argument type of Code::from.                                   *)
(***************************************************************************)
MinI32 == -2147483647 - 1
MaxI32 == 2147483647

(***************************************************************************)
(* The status constants of the native module (native::ERAR_xxx), with the *)
(* values of the UnRAR library header dll.hpp.                             *)
(***************************************************************************)
ERAR_SUCCESS == 0
ERAR_END_ARCHIVE == 10
ERAR_NO_MEMORY == 11
ERAR_BAD_DATA == 12
ERAR_BAD_ARCHIVE == 13
ERAR_UNKNOWN_FORMAT == 14
ERAR_EOPEN == 15
ERAR_ECREATE == 16
ERAR_ECLOSE == 17
ERAR_EREAD == 18
ERAR_EWRITE == 19
ERAR_SMALL_BUF == 20
ERAR_UNKNOWN == 21
ERAR_MISSING_PASSWORD == 22
ERAR_EREFERENCE == 23
ERAR_BAD_PASSWORD == 24

(***************************************************************************)
(* enum Code: the variants in declaration order.                           *)
(***************************************************************************)
CodeVariants ==
    << "Success", "EndArchive", "NoMemory", "BadData", "BadArchive",
       "UnknownFormat", "EOpen", "ECreate", "EClose", "ERead", "EWrite",
       "SmallBuf", "Unknown", "MissingPassword", "EReference",
       "BadPassword", "ENul" >>

Code == { CodeVariants[i] : i \in 1..Len(CodeVariants) }

\* the variants whose discriminant is a constant of the native module
NativeCode == Code \ {"ENul"}

\* a plausible slip: the crate's own code reuses the next free small value
as_i32_reused(c) ==
    CASE c = "Success" -> ERAR_SUCCESS
      [] c = "EndArchive" -> ERAR_END_ARCHIVE
      [] c = "NoMemory" -> ERAR_NO_MEMORY
      [] c = "BadData" -> ERAR_BAD_DATA
      [] c = "BadArchive" -> ERAR_BAD_ARCHIVE
      [] c = "UnknownFormat" -> ERAR_UNKNOWN_FORMAT
      [] c = "EOpen" -> ERAR_EOPEN
      [] c = "ECreate" -> ERAR_ECREATE
      [] c = "EClose" -> ERAR_ECLOSE
      [] c = "ERead" -> ERAR_EREAD
      [] c = "EWrite" -> ERAR_EWRITE
      [] c = "SmallBuf" -> ERAR_SMALL_BUF
      [] c = "Unknown" -> ERAR_UNKNOWN
      [] c = "MissingPassword" -> ERAR_MISSING_PASSWORD
      [] c = "EReference" -> ERAR_EREFERENCE
      [] c = "BadPassword" -> ERAR_BAD_PASSWORD
      [] c = "ENul" -> ERAR_BAD_PASSWORD

\* the discriminant of a variant, `c as i32` (#[repr(i32)])
as_i32(c) ==
    CASE c = "Success" -> ERAR_SUCCESS
      [] c = "EndArchive" -> ERAR_END_ARCHIVE
      [] c = "NoMemory" -> ERAR_NO_MEMORY
      [] c = "BadData" -> ERAR_BAD_DATA
      [] c = "BadArchive" -> ERAR_BAD_ARCHIVE
      [] c = "UnknownFormat" -> ERAR_UNKNOWN_FORMAT
      [] c = "EOpen" -> ERAR_EOPEN
      [] c = "ECreate" -> ERAR_ECREATE
      [] c = "EClose" -> ERAR_ECLOSE
      [] c = "ERead" -> ERAR_EREAD
      [] c = "EWrite" -> ERAR_EWRITE
      [] c = "SmallBuf" -> ERAR_SMALL_BUF
      [] c = "Unknown" -> ERAR_UNKNOWN
      [] c = "MissingPassword" -> ERAR_MISSING_PASSWORD
      [] c = "EReference" -> ERAR_EREFERENCE
      [] c = "BadPassword" -> ERAR_BAD_PASSWORD
      [] c = "ENul" -> 65536

\* a plausible slip: an unrecognized integer falls back to Code::Unknown
from_i32_default(n) ==
    LET hits == { i \in 1..Len(CodeVariants) : n = as_i32(CodeVariants[i]) }
    IN  IF hits = {}
        THEN Some("Unknown")
        ELSE Some(CodeVariants[CHOOSE i \in hits : \A j \in hits : i <= j])

\* a plausible slip: only the native constants are recognized
from_i32_native_only(n) ==
    LET hits == { i \in 1..Len(CodeVariants) :
                    /\ CodeVariants[i] \in NativeCode
                    /\ n = as_i32(CodeVariants[i]) }
    IN  IF hits = {}
        THEN None
        ELSE Some(CodeVariants[CHOOSE i \in hits : \A j \in hits : i <= j])

\* a plausible slip: the comparison is off by one for the nonzero codes
from_i32_shifted(n) ==
    LET hits == { i \in 1..Len(CodeVariants) :
                    n = as_i32(CodeVariants[i]) + (IF i = 1 THEN 0 ELSE 1) }
    IN  IF hits = {}
        THEN None
        ELSE Some(CodeVariants[CHOOSE i \in hits : \A j \in hits : i <= j])

(***************************************************************************)
(* FromPrimitive::from_i32 as enum_from_primitive! generates it: the       *)
(* integer is compared with each variant's discriminant in declaration     *)
(* order, the first equal one is returned, and None when there is none.    *)
(***************************************************************************)
from_i32(n) ==
    LET hits == { i \in 1..Len(CodeVariants) : n = as_i32(CodeVariants[i]) }
    IN  IF hits = {}
        THEN None
        ELSE Some(CodeVariants[CHOOSE i \in hits : \A j \in hits : i <= j])

\* the integers handed to Code::from
RawInputs ==
    (-MaxRaw..MaxRaw) \cup ((65536 - Near)..(65536 + Near))
        \cup ((-999 - Near)..(-999 + Near)) \cup {MinI32, MaxI32}

Init ==
    /\ code_in = None /\ code_out = None /\ cast_out = None
    /\ lhs = None /\ rhs = None /\ text_l = None /\ text_r = None
    /\ debug_l = None /\ eq_out = None
    /\ nul_src = None /\ nul_err = None /\ nul_text = None

\* Code::from(code)
CodeFrom(code) ==
    /\ code_in' = Some(code)
    /\ code_out' = from_i32(code)
    /\ cast_out' = None
    /\ UNCHANGED <<errVars, nulVars>>

\* `variant as i32` applied to the variant Code::from returned
CodeAsI32 ==
    /\ IsSome(code_in)
    /\ IsSome(code_out)
    /\ cast_out' = Some(as_i32(code_out.value))
    /\ UNCHANGED <<code_in, code_out, errVars, nulVars>>

NextCode ==
    \/ \E code \in RawInputs : CodeFrom(code)
    \/ CodeAsI32

SpecCode == Init /\ [][NextCode]_vars

(***************************************************************************)
(* Code::from: the claims.                                                 *)
(***************************************************************************)
\* the variants whose discriminant equals the integer n
VariantsOf(n) == { v \in Code : as_i32(v) = n }

\* C1: Code::from applied to any i32, negative and unused values such as
\* -999 included, returns Some(variant) exactly when the integer equals the
\* discriminant of that variant and None when it equals no discriminant; an
\* unrecognized integer is never replaced by a default variant.
C1_ClassifyExact ==
    IsSome(code_in) =>
        /\ \A v \in Code : (code_out = Some(v)) <=> (code_in.value = as_i32(v))
        /\ (code_out = None) <=> (VariantsOf(code_in.value) = {})
        /\ (code_in.value = -999) => (code_out = None)

C1_Witness == code_in = Some(-999) /\ code_out = None

\* C2: for every variant that comes from the native layer, Code::from of its
\* discriminant returns that variant, and casting the returned variant back
\* to i32 yields the discriminant again.
C2_NativeRoundTrip ==
    \A v \in NativeCode :
        code_in = Some(as_i32(v)) =>
            /\ code_out = Some(v)
            /\ IsSome(cast_out) => cast_out.value = code_in.value

C2_Witness ==
    /\ code_in = Some(ERAR_BAD_PASSWORD)
    /\ code_out = Some("BadPassword")
    /\ cast_out = Some(ERAR_BAD_PASSWORD)

\* C8: the discriminant of ENul is 0x10000, it lies outside the range of the
\* native constants and differs from each of them, so all discriminants are
\* pairwise distinct and no integer classifies to two variants.
C8_ENulOutsideNativeRange ==
    /\ as_i32("ENul") = 65536
    /\ \A v \in NativeCode : as_i32(v) # as_i32("ENul")
    /\ \A u, v \in NativeCode : ~(as_i32(u) <= as_i32("ENul") /\ as_i32("ENul") <= as_i32(v))
    /\ \A u, v \in Code : (u # v) => (as_i32(u) # as_i32(v))
    /\ (IsSome(code_in) /\ IsSome(code_out)) =>
            VariantsOf(code_in.value) = {code_out.value}
    /\ IsSome(cast_out) => VariantsOf(cast_out.value) = {code_out.value}

C8_Witness == code_out = Some("ENul") /\ cast_out = Some(65536)

\* C10: Code::from does not restrict its results to the native variants: the
\* integer 0x10000 is classified as Some(ENul), not as None.
C10_ClassifyLocalCode ==
    (code_in = Some(65536)) => (code_out = Some("ENul"))

C10_Witness ==
    code_in = Some(65536) /\ code_out = Some("ENul") /\ cast_out = None

(***************************************************************************)
(* enum When, in declaration order, with its implicit discriminants.       *)
(***************************************************************************)
WhenVariants == << "Open", "Read", "Process" >>

When == { WhenVariants[i] : i \in 1..Len(WhenVariants) }

\* the implicit discriminant of a When variant: its declaration index from 0
when_tag(w) == (CHOOSE i \in 1..Len(WhenVariants) : WhenVariants[i] = w) - 1

\* derive(Debug) on Code writes the name of the variant
DebugCode(c) ==
    CASE c = "Success" -> "Success"
      [] c = "EndArchive" -> "EndArchive"
      [] c = "NoMemory" -> "NoMemory"
      [] c = "BadData" -> "BadData"
      [] c = "BadArchive" -> "BadArchive"
      [] c = "UnknownFormat" -> "UnknownFormat"
      [] c = "EOpen" -> "EOpen"
      [] c = "ECreate" -> "ECreate"
      [] c = "EClose" -> "EClose"
      [] c = "ERead" -> "ERead"
      [] c = "EWrite" -> "EWrite"
      [] c = "SmallBuf" -> "SmallBuf"
      [] c = "Unknown" -> "Unknown"
      [] c = "MissingPassword" -> "MissingPassword"
      [] c = "EReference" -> "EReference"
      [] c = "BadPassword" -> "BadPassword"
      [] c = "ENul" -> "ENul"

\* derive(Debug) on When writes the name of the variant
DebugWhen(w) ==
    CASE w = "Open" -> "Open"
      [] w = "Read" -> "Read"
      [] w = "Process" -> "Process"

\* derive(PartialEq) on a fieldless enum compares the discriminants
code_eq(a, b) == as_i32(a) = as_i32(b)
when_eq(a, b) == when_tag(a) = when_tag(b)

(***************************************************************************)
(* struct UnrarError { code, when } and UnrarError::from.                  *)
(***************************************************************************)
UnrarError == [code : Code, when : When]

UnrarError_from(code, when) == [code |-> code, when |-> when]

\* a plausible slip: the comparison looks at the code only
UnrarError_eq_code_only(a, b) == code_eq(a.code, b.code)

\* a plausible slip: the two field comparisons are joined by "or"
UnrarError_eq_either(a, b) ==
    code_eq(a.code, b.code) \/ when_eq(a.when, b.when)

\* derive(PartialEq) on UnrarError: field by field, in declaration order
UnrarError_eq(a, b) == code_eq(a.code, b.code) /\ when_eq(a.when, b.when)

(***************************************************************************)
(* fmt::Result of a rendering: Ok with the text written, or Err.           *)
(***************************************************************************)
Ok(t) == [tag |-> "Ok", value |-> t]
Err == [tag |-> "Err"]
IsOk(r) == r.tag = "Ok"

\* an arm of a match on (code, when); "_" is the wildcard pattern
Arm(c, w, m) == [code |-> c, when |-> w, msg |-> m]

\* a plausible slip: the catch-all arms stand before the specific ones
DisplayArms_generic_first ==
    << Arm("UnknownFormat", "_", "Unknown archive format"),
       Arm("EOpen", "_", "Could not open archive"),
       Arm("BadData", "Open", "Archive header damaged"),
       Arm("BadData", "Read", "File header damaged"),
       Arm("BadData", "Process", "File CRC error"),
       Arm("UnknownFormat", "Open", "Unknown encryption"),
       Arm("EOpen", "Process", "Could not open next volume"),
       Arm("NoMemory", "_", "Not enough memory"),
       Arm("BadArchive", "_", "Not a RAR archive"),
       Arm("ECreate", "_", "Could not create file"),
       Arm("EClose", "_", "Could not close file"),
       Arm("ERead", "_", "Read error"),
       Arm("EWrite", "_", "Write error"),
       Arm("SmallBuf", "_", "Archive comment was truncated to fit to buffer"),
       Arm("MissingPassword", "_", "Password for encrypted archive not specified"),
       Arm("EReference", "_", "Cannot open file source for reference record"),
       Arm("BadPassword", "_", "Wrong password was specified"),
       Arm("Unknown", "_", "Unknown error"),
       Arm("EndArchive", "_", "Archive end"),
       Arm("Success", "_", "Success"),
       Arm("ENul", "_", "Nul error (nul found in String)") >>

\* a plausible slip: the arm of the crate's own code is missing
DisplayArms_no_ENul ==
    << Arm("BadData", "Open", "Archive header damaged"),
       Arm("BadData", "Read", "File header damaged"),
       Arm("BadData", "Process", "File CRC error"),
       Arm("UnknownFormat", "Open", "Unknown encryption"),
       Arm("EOpen", "Process", "Could not open next volume"),
       Arm("UnknownFormat", "_", "Unknown archive format"),
       Arm("EOpen", "_", "Could not open archive"),
       Arm("NoMemory", "_", "Not enough memory"),
       Arm("BadArchive", "_", "Not a RAR archive"),
       Arm("ECreate", "_", "Could not create file"),
       Arm("EClose", "_", "Could not close file"),
       Arm("ERead", "_", "Read error"),
       Arm("EWrite", "_", "Write error"),
       Arm("SmallBuf", "_", "Archive comment was truncated to fit to buffer"),
       Arm("MissingPassword", "_", "Password for encrypted archive not specified"),
       Arm("EReference", "_", "Cannot open file source for reference record"),
       Arm("BadPassword", "_", "Wrong password was specified"),
       Arm("Unknown", "_", "Unknown error"),
       Arm("EndArchive", "_", "Archive end"),
       Arm("Success", "_", "Success") >>

\* a plausible slip: one text is pasted for two kinds of write failure
DisplayArms_pasted ==
    << Arm("BadData", "Open", "Archive header damaged"),
       Arm("BadData", "Read", "File header damaged"),
       Arm("BadData", "Process", "File CRC error"),
       Arm("UnknownFormat", "Open", "Unknown encryption"),
       Arm("EOpen", "Process", "Could not open next volume"),
       Arm("UnknownFormat", "_", "Unknown archive format"),
       Arm("EOpen", "_", "Could not open archive"),
       Arm("NoMemory", "_", "Not enough memory"),
       Arm("BadArchive", "_", "Not a RAR archive"),
       Arm("ECreate", "_", "Could not create file"),
       Arm("EClose", "_", "Could not close file"),
       Arm("ERead", "_", "Read error"),
       Arm("EWrite", "_", "Read error"),
       Arm("SmallBuf", "_", "Archive comment was truncated to fit to buffer"),
       Arm("MissingPassword", "_", "Password for encrypted archive not specified"),
       Arm("EReference", "_", "Cannot open file source for reference record"),
       Arm("BadPassword", "_", "Wrong password was specified"),
       Arm("Unknown", "_", "Unknown error"),
       Arm("EndArchive", "_", "Archive end"),
       Arm("Success", "_", "Success"),
       Arm("ENul", "_", "Nul error (nul found in String)") >>

\* the arms of the match of Display for UnrarError, in source order
DisplayArms ==
    << Arm("BadData", "Open", "Archive header damaged"),
       Arm("BadData", "Read", "File header damaged"),
       Arm("BadData", "Process", "File CRC error"),
       Arm("UnknownFormat", "Open", "Unknown encryption"),
       Arm("EOpen", "Process", "Could not open next volume"),
       Arm("UnknownFormat", "_", "Unknown archive format"),
       Arm("EOpen", "_", "Could not open archive"),
       Arm("NoMemory", "_", "Not enough memory"),
       Arm("BadArchive", "_", "Not a RAR archive"),
       Arm("ECreate", "_", "Could not create file"),
       Arm("EClose", "_", "Could not close file"),
       Arm("ERead", "_", "Read error"),
       Arm("EWrite", "_", "Write error"),
       Arm("SmallBuf", "_", "Archive comment was truncated to fit to buffer"),
       Arm("MissingPassword", "_", "Password for encrypted archive not specified"),
       Arm("EReference", "_", "Cannot open file source for reference record"),
       Arm("BadPassword", "_", "Wrong password was specified"),
       Arm("Unknown", "_", "Unknown error"),
       Arm("EndArchive", "_", "Archive end"),
       Arm("Success", "_", "Success"),
       Arm("ENul", "_", "Nul error (nul found in String)") >>

\* does the pattern of an arm match (code, when)
ArmMatches(arm, e) ==
    /\ arm.code = e.code
    /\ arm.when = "_" \/ arm.when = e.when

(***************************************************************************)
(* Display for UnrarError: the first arm that matches (self.code,          *)
(* self.when) writes its text.  Err stands for a value no arm matches.     *)
(***************************************************************************)
Display(e) ==
    LET hits == { i \in 1..Len(DisplayArms) : ArmMatches(DisplayArms[i], e) }
    IN  IF hits = {}
        THEN Err
        ELSE Ok(DisplayArms[CHOOSE i \in hits : \A j \in hits : i <= j].msg)

\* a plausible slip: the message is written without the parentheses
Debug_no_parens(e) ==
    LET head == DebugCode(e.code) \o "@" \o DebugWhen(e.when)
        shown == Display(e)
    IN  IF IsOk(shown) THEN Ok(head \o " " \o shown.value) ELSE Err

(***************************************************************************)
(* Debug for UnrarError: "{:?}@{:?}" of the code and the phase, then       *)
(* " ({})" of the value itself; an Err of the inner rendering propagates.  *)
(***************************************************************************)
Debug(e) ==
    LET head == DebugCode(e.code) \o "@" \o DebugWhen(e.when)
        shown == Display(e)
    IN  IF IsOk(shown) THEN Ok(head \o " (" \o shown.value \o ")") ELSE Err

\* UnrarError::from(code, when), bound to the left-hand value
BuildLhs(code, when) ==
    /\ lhs' = Some(UnrarError_from(code, when))
    /\ text_l' = None
    /\ debug_l' = None
    /\ eq_out' = None
    /\ UNCHANGED <<rhs, text_r, codeVars, nulVars>>

\* UnrarError::from(code, when), bound to the right-hand value
BuildRhs(code, when) ==
    /\ rhs' = Some(UnrarError_from(code, when))
    /\ text_r' = None
    /\ eq_out' = None
    /\ UNCHANGED <<lhs, text_l, debug_l, codeVars, nulVars>>

\* format!("{}", lhs)
DisplayLhs ==
    /\ IsSome(lhs)
    /\ text_l' = Display(lhs.value)
    /\ UNCHANGED <<lhs, rhs, text_r, debug_l, eq_out, codeVars, nulVars>>

\* format!("{}", rhs)
DisplayRhs ==
    /\ IsSome(rhs)
    /\ text_r' = Display(rhs.value)
    /\ UNCHANGED <<lhs, rhs, text_l, debug_l, eq_out, codeVars, nulVars>>

\* format!("{:?}", lhs)
DebugLhs ==
    /\ IsSome(lhs)
    /\ debug_l' = Debug(lhs.value)
    /\ UNCHANGED <<lhs, rhs, text_l, text_r, eq_out, codeVars, nulVars>>

\* lhs == rhs
Equals ==
    /\ IsSome(lhs)
    /\ IsSome(rhs)
    /\ eq_out' = Some(UnrarError_eq(lhs.value, rhs.value))
    /\ UNCHANGED <<lhs, rhs, text_l, text_r, debug_l, codeVars, nulVars>>

NextError ==
    \/ \E code \in Code, when \in When : BuildLhs(code, when)
    \/ \E code \in Code, when \in When : BuildRhs(code, when)
    \/ DisplayLhs
    \/ DisplayRhs
    \/ DebugLhs
    \/ Equals

SpecError == Init /\ [][NextError]_vars

(***************************************************************************)
(* UnrarError: the claims.                                                 *)
(***************************************************************************)
\* has the call whose result r holds been made
Rendered(r) == r.tag # "None"

\* t occurs in s as a substring
Contains(s, t) ==
    \E i \in 1..(Len(s) - Len(t) + 1) : SubSeq(s, i, i + Len(t) - 1) = t

\* the message table of the specification, as a two-level mapping: the
\* phase-specific entries, then the entry of the code for any phase
PhaseMessage ==
    [ BadData |-> [Open |-> "Archive header damaged",
                   Read |-> "File header damaged",
                   Process |-> "File CRC error"],
      UnknownFormat |-> [Open |-> "Unknown encryption"],
      EOpen |-> [Process |-> "Could not open next volume"] ]

AnyPhaseMessage ==
    [ UnknownFormat |-> "Unknown archive format",
      EOpen |-> "Could not open archive",
      NoMemory |-> "Not enough memory",
      BadArchive |-> "Not a RAR archive",
      ECreate |-> "Could not create file",
      EClose |-> "Could not close file",
      ERead |-> "Read error",
      EWrite |-> "Write error",
      SmallBuf |-> "Archive comment was truncated to fit to buffer",
      MissingPassword |-> "Password for encrypted archive not specified",
      EReference |-> "Cannot open file source for reference record",
      BadPassword |-> "Wrong password was specified",
      Unknown |-> "Unknown error",
      EndArchive |-> "Archive end",
      Success |-> "Success",
      ENul |-> "Nul error (nul found in String)" ]

TableMessage(c, w) ==
    IF c \in DOMAIN PhaseMessage /\ w \in DOMAIN PhaseMessage[c]
    THEN PhaseMessage[c][w]
    ELSE AnyPhaseMessage[c]

\* C3 as stated: there are 19 codes and 57 (code, phase) pairs, and the
\* rendering of each of them succeeds with a non-empty message.
C3_Original57 ==
    Rendered(text_l) =>
        /\ Cardinality(Code) = 19
        /\ Cardinality(Code \X When) = 57
        /\ IsOk(text_l)
        /\ Len(text_l.value) > 0

\* C3, amended: there are 17 codes and 3 phases, 51 pairs, and the rendering
\* of the message of each of them succeeds with a non-empty message.
C3_MessageTotal ==
    /\ Cardinality(Code) = 17
    /\ Cardinality(When) = 3
    /\ Cardinality(Code \X When) = 51
    /\ Rendered(text_l) => (IsOk(text_l) /\ Len(text_l.value) > 0)
    /\ Rendered(text_r) => (IsOk(text_r) /\ Len(text_r.value) > 0)
    /\ Rendered(debug_l) => (IsOk(debug_l) /\ Len(debug_l.value) > 0)

C3_Witness ==
    /\ lhs = Some(UnrarError_from("ENul", "Process"))
    /\ text_l = Ok("Nul error (nul found in String)")
    /\ rhs = Some(UnrarError_from("Success", "Read"))
    /\ text_r = Ok("Success")

\* C4: the message is that of the first matching rule, the phase-specific
\* rules before the any-phase ones: BadData has one message per phase,
\* UnknownFormat is "Unknown encryption" when opening and "Unknown archive
\* format" otherwise, EOpen is "Could not open next volume" when processing
\* and "Could not open archive" otherwise, and every other pair has the
\* any-phase message of its code.
C4_FirstMatchMessage ==
    /\ Rendered(text_l) =>
           text_l = Ok(TableMessage(lhs.value.code, lhs.value.when))
    /\ Rendered(text_r) =>
           text_r = Ok(TableMessage(rhs.value.code, rhs.value.when))

C4_Witness ==
    /\ lhs = Some(UnrarError_from("EOpen", "Process"))
    /\ text_l = Ok("Could not open next volume")
    /\ rhs = Some(UnrarError_from("EOpen", "Open"))
    /\ text_r = Ok("Could not open archive")

\* C5 as stated: the diagnostic rendering of (UnknownFormat, Opening)
\* contains "UnknownFormat", "Opening" and "Unknown encryption".
C5_OriginalOpening ==
    (lhs = Some(UnrarError_from("UnknownFormat", "Open")) /\ Rendered(debug_l)) =>
        /\ IsOk(debug_l)
        /\ Contains(debug_l.value, "UnknownFormat")
        /\ Contains(debug_l.value, "Opening")
        /\ Contains(debug_l.value, "Unknown encryption")

\* C5, amended: the diagnostic rendering is the name of the code variant,
\* "@", the name of the phase variant (Open, Read or Process), a space, and
\* the message of the same pair in parentheses; that of (UnknownFormat, Open)
\* is "UnknownFormat@Open (Unknown encryption)", which contains
\* "UnknownFormat", "Open" and "Unknown encryption" but not "Opening".
C5_DiagnosticRendering ==
    Rendered(debug_l) =>
        /\ IsOk(debug_l)
        /\ debug_l.value =
              lhs.value.code \o "@" \o lhs.value.when \o " ("
                  \o TableMessage(lhs.value.code, lhs.value.when) \o ")"
        /\ Rendered(text_l) =>
              Contains(debug_l.value, "(" \o text_l.value \o ")")
        /\ lhs.value.when \in {"Open", "Read", "Process"}
        /\ (lhs.value = UnrarError_from("UnknownFormat", "Open")) =>
              /\ debug_l.value = "UnknownFormat@Open (Unknown encryption)"
              /\ Contains(debug_l.value, "UnknownFormat")
              /\ Contains(debug_l.value, "Open")
              /\ Contains(debug_l.value, "Unknown encryption")
              /\ ~Contains(debug_l.value, "Opening")

C5_Witness ==
    /\ lhs = Some(UnrarError_from("UnknownFormat", "Open"))
    /\ debug_l = Ok("UnknownFormat@Open (Unknown encryption)")
    /\ text_l = Ok("Unknown encryption")

\* C6: two UnrarError values are equal exactly when their codes are equal
\* and their phases are equal; values that differ in the code only or in the
\* phase only are unequal, also when they render the same message, and
\* values built from the same pair are equal.
C6_StructuralEquality ==
    (IsSome(eq_out) /\ IsSome(lhs) /\ IsSome(rhs)) =>
        /\ eq_out.value <=>
              (lhs.value.code = rhs.value.code /\ lhs.value.when = rhs.value.when)
        /\ (lhs.value.code # rhs.value.code) => ~eq_out.value
        /\ (lhs.value.when # rhs.value.when) => ~eq_out.value
        /\ (lhs.value = rhs.value) => eq_out.value

C6_Witness ==
    /\ IsSome(lhs) /\ IsSome(rhs)
    /\ eq_out = Some(FALSE)
    /\ lhs.value.code = rhs.value.code
    /\ lhs.value.when # rhs.value.when
    /\ IsOk(text_l)
    /\ text_l = text_r

\* the codes whose message has a phase-specific arm
PhaseDependent == {"BadData", "UnknownFormat", "EOpen"}

\* C9: the message depends on the phase only for BadData, UnknownFormat and
\* EOpen; for each other code it is the same in the three phases, and two
\* errors with different codes never render the same message.
C9_PhaseDependence ==
    (IsSome(lhs) /\ IsSome(rhs) /\ Rendered(text_l) /\ Rendered(text_r)) =>
        /\ (lhs.value.code = rhs.value.code /\ lhs.value.code \notin PhaseDependent)
              => text_l = text_r
        /\ (lhs.value.code # rhs.value.code) => text_l # text_r

C9_Witness ==
    /\ lhs = Some(UnrarError_from("Success", "Open"))
    /\ rhs = Some(UnrarError_from("Success", "Process"))
    /\ text_l = Ok("Success")
    /\ text_r = Ok("Success")

(***************************************************************************)
(* The string-conversion failures (ffi::NulError, widestring::NulError)    *)
(* and struct NulError(usize).                                             *)
(***************************************************************************)
\* a conversion failure of the lower layer: its source and its nul position
Failure(kind, pos) == [kind |-> kind, pos |-> pos]

\* e.nul_position()
nul_position(e) == e.pos

\* a plausible slip: the position is counted from one
NulError_from_one_based(e) == nul_position(e) + 1

\* From<ffi::NulError> and From<widestring::NulError<C>> for NulError; the
\* value NulError(p) is modelled by p
NulError_from(e) == nul_position(e)

\* the decimal digit d as text
Digit(d) == SubSeq("0123456789", d + 1, d + 1)

\* Display of usize: the decimal numeral, without sign or leading zeros
RECURSIVE ToDecimal(_)
ToDecimal(n) ==
    IF n < 10 THEN Digit(n) ELSE ToDecimal(n \div 10) \o Digit(n % 10)

\* Display for NulError
NulError_display(p) == "nul value found at position: " \o ToDecimal(p)

\* CString::new fails on a string with a nul byte at position pos
FailNarrow(pos) ==
    /\ nul_src' = Some(Failure("ffi", pos))
    /\ nul_err' = None
    /\ nul_text' = None
    /\ UNCHANGED <<codeVars, errVars>>

\* WideCString::from_str fails on a string with a nul at position pos
FailWide(pos) ==
    /\ nul_src' = Some(Failure("widestring", pos))
    /\ nul_err' = None
    /\ nul_text' = None
    /\ UNCHANGED <<codeVars, errVars>>

\* NulError::from(e) for e: ffi::NulError
FromNarrow ==
    /\ IsSome(nul_src)
    /\ nul_src.value.kind = "ffi"
    /\ nul_err' = Some(NulError_from(nul_src.value))
    /\ nul_text' = None
    /\ UNCHANGED <<nul_src, codeVars, errVars>>

\* NulError::from(e) for e: widestring::NulError<C>
FromWide ==
    /\ IsSome(nul_src)
    /\ nul_src.value.kind = "widestring"
    /\ nul_err' = Some(NulError_from(nul_src.value))
    /\ nul_text' = None
    /\ UNCHANGED <<nul_src, codeVars, errVars>>

\* format!("{}", nul_err)
DisplayNul ==
    /\ IsSome(nul_err)
    /\ nul_text' = Some(NulError_display(nul_err.value))
    /\ UNCHANGED <<nul_src, nul_err, codeVars, errVars>>

NextNul ==
    \/ \E pos \in 0..MaxNulPos : FailNarrow(pos)
    \/ \E pos \in 0..MaxNulPos : FailWide(pos)
    \/ FromNarrow
    \/ FromWide
    \/ DisplayNul

SpecNul == Init /\ [][NextNul]_vars

\* the value of a decimal digit character, -1 for any other character
DigitValue(ch) ==
    IF \E d \in 0..9 : Digit(d) = ch
    THEN CHOOSE d \in 0..9 : Digit(d) = ch
    ELSE -1

\* the number a decimal numeral denotes, -1 when it is not a numeral
RECURSIVE ParseDecimal(_)
ParseDecimal(t) ==
    IF Len(t) = 0 THEN -1
    ELSE LET last == DigitValue(SubSeq(t, Len(t), Len(t)))
         IN  IF last < 0 THEN -1
             ELSE IF Len(t) = 1 THEN last
             ELSE LET front == ParseDecimal(SubSeq(t, 1, Len(t) - 1))
                  IN  IF front < 0 THEN -1 ELSE 10 * front + last

\* the text before the position in the display of NulError
NulPrefix == "nul value found at position: "

\* C7: converting a narrow or a wide conversion failure into NulError stores
\* the nul position of the failure unchanged, and the display text of the
\* result contains that position in decimal; position 5 is stored as 5 and
\* its display text contains "5".
C7_NulPositionPreserved ==
    /\ IsSome(nul_err) =>
           /\ nul_err.value = nul_src.value.pos
           /\ (nul_src.value.pos = 5) => (nul_err = Some(5))
    /\ IsSome(nul_text) =>
           /\ Len(nul_text.value) > Len(NulPrefix)
           /\ SubSeq(nul_text.value, 1, Len(NulPrefix)) = NulPrefix
           /\ ParseDecimal(SubSeq(nul_text.value, Len(NulPrefix) + 1,
                                  Len(nul_text.value))) = nul_src.value.pos
           /\ (nul_src.value.pos = 5) => Contains(nul_text.value, "5")

C7_Witness ==
    /\ nul_src = Some(Failure("ffi", 5))
    /\ nul_err = Some(5)
    /\ nul_text = Some("nul value found at position: 5")

\* the wide source, with a position of three digits
C7_WitnessWide ==
    /\ nul_src = Some(Failure("widestring", 107))
    /\ nul_err = Some(107)
    /\ nul_text = Some("nul value found at position: 107")

====
